---- MODULE Spec2Model ----
(***************************************************************************)
(* Model of the ConvertMaps webhook worker (src/src/index.ts): the fetch   *)
(* handler, its rate limiter, the provider detector, the normalizers, the  *)
(* validation sequence, the product attribution and the two persistence    *)
(* calls.  Every await of the handler is one step of a request.            *)
(***************************************************************************)
EXTENDS Integers, Sequences, FiniteSets, TLC

\* ---------------------------------------------------------------- limits
MAX_BODY_BYTES == 65536
MAX_ITEMS == 100
MAX_CENTS == 100000000
MAX_EVENTS_PER_MIN == 300
MAX_EVENTS_PER_MIN_PER_IP == 120
MAX_EVENT_AGE_DAYS == 7
MS_PER_DAY == 86400000
MS_PER_MINUTE == 60000
MAX_QUANTITY == 1000

\* ---------------------------------------------------------------- bounds
\* number of concurrent requests of the handler specifications
NReq == 2
\* how many times the clock may advance by one minute
MaxTicks == 1
\* requests one address may send beyond its per-minute limit (SpecRate)
MaxOver == 2
\* collaborator calls that may fail in one run
MaxFaults == 1

\* ------------------------------------------------------ JavaScript numbers
\* A number is an integer n, a half-integer n + 1/2 (the non-integers of the
\* model), NaN, or undefined (an optional field that was never set).
NInt(n) == [k |-> "int", n |-> n]
NFrac(n) == [k |-> "frac", n |-> n]
NNaN == [k |-> "nan", n |-> 0]
NUndef == [k |-> "undef", n |-> 0]

\* Number.isInteger
IsInteger(x) == x.k = "int"
\* truthiness of a number: 0, NaN and undefined are falsy
NumTruthy(x) == (x.k = "int" /\ x.n # 0) \/ x.k = "frac"
\* x || 0
NumOrZero(x) == IF NumTruthy(x) THEN x ELSE NInt(0)
\* x ?? 0
NumNullish(x) == IF x.k = "undef" THEN NInt(0) ELSE x
\* Math.abs(x) > c, false for NaN
AbsGt(x, c) ==
  CASE x.k = "int" -> (IF x.n < 0 THEN -x.n ELSE x.n) > c
    [] x.k = "frac" -> IF x.n >= 0 THEN x.n >= c ELSE -x.n >= c + 1
    [] OTHER -> FALSE
\* x < c and x > c for an integer c, false for NaN
NumLt(x, c) == x.k \in {"int", "frac"} /\ x.n < c
NumGt(x, c) == (x.k = "int" /\ x.n > c) \/ (x.k = "frac" /\ x.n >= c)
\* Math.round: halves round towards +infinity
MathRound(x) == IF x.k = "frac" THEN NInt(x.n + 1) ELSE x
\* x * 100
Times100(x) ==
  CASE x.k = "int" -> NInt(100 * x.n)
    [] x.k = "frac" -> NInt(100 * x.n + 50)
    [] OTHER -> NNaN

\* --------------------------------------------------------- JSON values
\* t is the kind of the value; n its number (or the length of an array, or
\* the instant of a timestamp string); s its text.
JUndef == [t |-> "undef", n |-> 0, s |-> ""]
JNull == [t |-> "null", n |-> 0, s |-> ""]
JInt(n) == [t |-> "int", n |-> n, s |-> ""]
JFrac(n) == [t |-> "frac", n |-> n, s |-> ""]
JStr(s) == [t |-> "str", n |-> 0, s |-> s]
JBool(b) == [t |-> "bool", n |-> IF b THEN 1 ELSE 0, s |-> ""]
JArr(len) == [t |-> "arr", n |-> len, s |-> ""]
JObj == [t |-> "obj", n |-> 0, s |-> ""]
\* a string that Date.parse reads as the instant ms; fmt is its spelling
JTime(ms, fmt) == [t |-> "time", n |-> ms, s |-> fmt]
\* the 32 hex digits of cryptoRandomId, k-th draw
RandomId(k) == [t |-> "rnd", n |-> k, s |-> ""]

\* the decimal strings of the model and the numbers they spell
Numerals == [s \in {"0", "5", "12", "2000"} |->
               CASE s = "0" -> 0 [] s = "5" -> 5 [] s = "12" -> 12 [] OTHER -> 2000]
\* the strings of the model that contain a "."
Dotted == {"checkout.session.completed", "payment_intent.succeeded",
           "invoice.payment_succeeded", "order.created"}

Truthy(v) ==
  CASE v.t \in {"undef", "null"} -> FALSE
    [] v.t = "int" -> v.n # 0
    [] v.t = "bool" -> v.n = 1
    [] v.t = "str" -> v.s # ""
    [] OTHER -> TRUE

\* a || b
JOr(a, b) == IF Truthy(a) THEN a ELSE b

\* Number(v)
ToNumber(v) ==
  CASE v.t = "int" -> NInt(v.n)
    [] v.t = "frac" -> NFrac(v.n)
    [] v.t = "null" -> NInt(0)
    [] v.t = "bool" -> NInt(v.n)
    [] v.t = "str" -> IF v.s = "" THEN NInt(0)
                      ELSE IF v.s \in DOMAIN Numerals THEN NInt(Numerals[v.s])
                      ELSE NNaN
    [] v.t = "arr" -> IF v.n = 0 THEN NInt(0) ELSE NNaN
    [] OTHER -> NNaN

\* (v || "USD").toUpperCase() throws a TypeError unless the value is a string
UpperThrows(v) == Truthy(v) /\ v.t \notin {"str", "time", "rnd"}

\* Date.parse(v || ""): the instant, or NaN
DateParse(v) == IF v.t = "time" THEN NInt(v.n) ELSE NNaN
\* new Date(v) is a valid date (toISOString does not throw)
DateValid(v) == v.t \in {"time", "int"}
\* new Date(v).toISOString(): the canonical spelling of the instant
ToISOString(v) == JTime(v.n, "iso")

\* ------------------------------------------------------------ payloads
\* One element of payload.items or payload.line_items: an object with the
\* fields the normalizers read, or null.
Item(q, a) == [kind |-> "obj", quantity |-> q, unit_amount_cents |-> a,
               price |-> a, currency |-> JUndef]
NullItem == [kind |-> "null", quantity |-> JUndef, unit_amount_cents |-> JUndef,
             price |-> JUndef, currency |-> JUndef]

\* The parsed JSON object with every field the worker probes.  o_* are the
\* fields of data.object, meta_* of meta, attr_* of data.attributes; itemEls
\* and lineEls hold the elements when items / line_items is an array.
EmptyPayload ==
  [object |-> JUndef, type |-> JUndef, id |-> JUndef, created |-> JUndef,
   o_amount_total |-> JUndef, o_amount |-> JUndef, o_total |-> JUndef,
   o_currency |-> JUndef,
   alert_id |-> JUndef, event_time |-> JUndef, order_id |-> JUndef,
   event_id |-> JUndef, sale_gross |-> JUndef, total |-> JUndef,
   amount |-> JUndef,
   meta_event_name |-> JUndef, meta_event_id |-> JUndef,
   attr_total |-> JUndef, attr_currency |-> JUndef, attr_created_at |-> JUndef,
   line_items |-> JUndef, lineEls |-> << >>, total_price |-> JUndef,
   subtotal_price |-> JUndef, created_at |-> JUndef,
   total_cents |-> JUndef, subtotal_cents |-> JUndef,
   discount_cents |-> JUndef, tax_cents |-> JUndef,
   items |-> JUndef, itemEls |-> << >>,
   provider |-> JUndef, provider_event_id |-> JUndef, currency |-> JUndef]

\* ------------------------------------------------------------ detection
IsStripe(p) == p.object = JStr("event") \/ (p.type.t = "str" /\ p.type.s \in Dotted)
IsPaddle(p) == Truthy(p.alert_id) \/ Truthy(p.event_time) \/ Truthy(p.order_id)
IsLemon(p) == Truthy(p.meta_event_name) \/ Truthy(p.attr_total)
IsShopify(p) == Truthy(p.line_items) /\ (Truthy(p.total_price) \/ Truthy(p.subtotal_price))
IsCustom(p) == Truthy(p.total_cents) \/ Truthy(p.items)

DetectSwapped(p) ==
  CASE IsStripe(p) -> "stripe"
    [] IsShopify(p) -> "shopify"
    [] IsPaddle(p) -> "paddle"
    [] IsLemon(p) -> "lemonsqueezy"
    [] IsCustom(p) -> "custom"
    [] OTHER -> "unsupported"

\* the branch detectAndNormalize takes; "unsupported" is its null result
Detect(p) ==
  IF IsStripe(p) THEN "stripe"
  ELSE IF IsPaddle(p) THEN "paddle"
  ELSE IF IsLemon(p) THEN "lemonsqueezy"
  ELSE IF IsShopify(p) THEN "shopify"
  ELSE IF IsCustom(p) THEN "custom"
  ELSE "unsupported"

\* ---------------------------------------------------------- normalizers
\* A NormalizedEvent; throws marks a normalizer that raised instead.
NoEvent ==
  [throws |-> FALSE, provider |-> JUndef, provider_event_id |-> JUndef,
   subtotal_cents |-> NUndef, discount_cents |-> NUndef, tax_cents |-> NUndef,
   total_cents |-> NUndef, items_count |-> 0, event_time |-> JUndef,
   items |-> << >>]
Thrown == [NoEvent EXCEPT !.throws = TRUE]

\* new Date().toISOString()
NowISO(now) == JTime(now, "iso")

StripeAmount(p) ==
  CASE p.type = JStr("checkout.session.completed") -> ToNumber(JOr(p.o_amount_total, JInt(0)))
    [] p.type = JStr("payment_intent.succeeded") -> ToNumber(JOr(p.o_amount, JInt(0)))
    [] p.type = JStr("invoice.payment_succeeded") -> ToNumber(JOr(p.o_total, JInt(0)))
    [] OTHER -> ToNumber(JOr(JOr(p.o_amount_total, p.o_amount), JInt(0)))

\* evt.created * 1000, in milliseconds
CreatedMs(p) ==
  LET c == ToNumber(p.created)
  IN CASE c.k = "int" -> NInt(c.n * 1000)
       [] c.k = "frac" -> NInt(c.n * 1000 + 500)
       [] OTHER -> NNaN

\* new Date(NaN).toISOString() throws a RangeError
normalizeStripeLoose(p, now, rid) ==
  IF (Truthy(p.created) /\ CreatedMs(p).k # "int") \/ UpperThrows(p.o_currency)
  THEN Thrown
  ELSE [NoEvent EXCEPT
          !.provider = JStr("stripe"),
          !.provider_event_id = JOr(p.id, rid),
          !.total_cents = StripeAmount(p),
          !.event_time = IF Truthy(p.created)
                         THEN JTime(CreatedMs(p).n, "iso")
                         ELSE NowISO(now)]

PaddleTotal(p) ==
  LET rawTotal == ToNumber(JOr(JOr(JOr(p.sale_gross, p.total), p.amount), JInt(0)))
  IN MathRound(IF NumLt(rawTotal, 1000) THEN Times100(rawTotal) ELSE rawTotal)

normalizePaddleLoose(p, now, rid) ==
  IF UpperThrows(p.currency) THEN Thrown
  ELSE [NoEvent EXCEPT
          !.provider = JStr("paddle"),
          !.provider_event_id = JOr(JOr(p.event_id, p.alert_id), rid),
          !.total_cents = PaddleTotal(p),
          !.items_count = IF p.items.t = "arr" THEN Len(p.itemEls) ELSE 0,
          !.event_time = JOr(p.event_time, NowISO(now))]

normalizeLemonLoose(p, now, rid) ==
  IF UpperThrows(p.attr_currency) THEN Thrown
  ELSE [NoEvent EXCEPT
          !.provider = JStr("lemonsqueezy"),
          !.provider_event_id = JOr(p.meta_event_id, rid),
          !.total_cents = ToNumber(JOr(p.attr_total, JInt(0))),
          !.event_time = JOr(p.attr_created_at, NowISO(now))]

\* Math.round(Number(li.price) * 100) || 0
ShopifyItem(li) ==
  [quantity |-> ToNumber(JOr(li.quantity, JInt(1))),
   unit_amount_cents |-> NumOrZero(MathRound(Times100(ToNumber(li.price))))]

normalizeShopifyLoose(p, now, rid) ==
  IF UpperThrows(p.currency)
     \/ (p.line_items.t = "arr" /\ \E i \in DOMAIN p.lineEls : p.lineEls[i].kind = "null")
  THEN Thrown
  ELSE LET items == IF p.line_items.t = "arr"
                    THEN [i \in DOMAIN p.lineEls |-> ShopifyItem(p.lineEls[i])]
                    ELSE << >>
       IN [NoEvent EXCEPT
             !.provider = JStr("shopify"),
             !.provider_event_id = JOr(p.id, rid),
             !.total_cents = MathRound(Times100(ToNumber(
                                JOr(JOr(p.total_price, p.subtotal_price), JInt(0))))),
             !.items_count = Len(items),
             !.event_time = JOr(p.created_at, NowISO(now)),
             !.items = items]

CustomItem(i) ==
  [quantity |-> ToNumber(JOr(i.quantity, JInt(1))),
   unit_amount_cents |-> ToNumber(JOr(i.unit_amount_cents, JInt(0)))]

normalizeCustom(p, now, rid) ==
  IF UpperThrows(p.currency)
     \/ (Truthy(p.items) /\ p.items.t # "arr")
     \/ (p.items.t = "arr" /\ \E i \in DOMAIN p.itemEls :
            p.itemEls[i].kind = "null"
            \/ UpperThrows(JOr(p.itemEls[i].currency, p.currency)))
  THEN Thrown
  ELSE [NoEvent EXCEPT
          !.provider = JOr(p.provider, JStr("custom")),
          !.provider_event_id = JOr(JOr(p.provider_event_id, p.id), rid),
          !.subtotal_cents = ToNumber(JOr(p.subtotal_cents, JInt(0))),
          !.discount_cents = ToNumber(JOr(p.discount_cents, JInt(0))),
          !.tax_cents = ToNumber(JOr(p.tax_cents, JInt(0))),
          !.total_cents = ToNumber(JOr(p.total_cents, JInt(0))),
          !.items_count = IF p.items.t = "arr" THEN Len(p.itemEls) ELSE 0,
          !.event_time = JOr(p.event_time, NowISO(now)),
          !.items = IF p.items.t = "arr"
                    THEN [i \in DOMAIN p.itemEls |-> CustomItem(p.itemEls[i])]
                    ELSE << >>]

\* detectAndNormalize: the event of the first shape that matches
detectAndNormalize(p, now, rid) ==
  LET shape == Detect(p) IN
  CASE shape = "stripe" -> normalizeStripeLoose(p, now, rid)
    [] shape = "paddle" -> normalizePaddleLoose(p, now, rid)
    [] shape = "lemonsqueezy" -> normalizeLemonLoose(p, now, rid)
    [] shape = "shopify" -> normalizeShopifyLoose(p, now, rid)
    [] shape = "custom" -> normalizeCustom(p, now, rid)
    [] OTHER -> NoEvent
\* ------------------------------------------------------ product mapping
\* A row of node_products; a null price_points_cents is the empty sequence
\* (both make the price search of that mapping fail).
Mapping(pid, prim, pts) ==
  [product_id |-> pid, is_primary |-> prim, price_points_cents |-> pts]
\* an item without a product (product_id undefined, stored as null)
NoProduct == ""

\* Math.abs(p - a) <= Math.max(1, p * 0.05) for a price point p and a number
\* a, in integers: twice the distance against max(2, p / 10)
WithinTolerance(p, a) ==
  LET twice == IF a.k = "frac" THEN 2 * a.n + 1 ELSE 2 * a.n
      d == IF 2 * p >= twice THEN 2 * p - twice ELSE twice - 2 * p
  IN d <= 2 \/ 10 * d <= p

MappingMatchesNoGuard(m, a) ==
  a.k \in {"int", "frac"}
  /\ \E i \in DOMAIN m.price_points_cents : WithinTolerance(m.price_points_cents[i], a)

\* the predicate of mappings.find in mapItemsToProducts
MappingMatches(m, a) ==
  IF m.price_points_cents = << >> \/ ~NumTruthy(a) THEN FALSE
  ELSE \E i \in DOMAIN m.price_points_cents : WithinTolerance(m.price_points_cents[i], a)

\* Array.prototype.find: the first element that satisfies Test, as a set of
\* at most one index
FirstIndex(seq, Test(_)) ==
  {i \in DOMAIN seq : Test(seq[i]) /\ \A j \in 1..(i - 1) : ~Test(seq[j])}

IsPrimary(m) == m.is_primary

ProductOf(mappings, a) ==
  LET Hit(m) == MappingMatches(m, a)
      match == FirstIndex(mappings, Hit)
      primary == FirstIndex(mappings, IsPrimary)
  IN IF match # {} THEN mappings[CHOOSE i \in match : TRUE].product_id
     ELSE IF primary # {} THEN mappings[CHOOSE i \in primary : TRUE].product_id
     ELSE NoProduct

mapItemsToProducts(items, mappings) ==
  [i \in DOMAIN items |->
     [quantity |-> items[i].quantity,
      unit_amount_cents |-> items[i].unit_amount_cents,
      product_id |-> ProductOf(mappings, items[i].unit_amount_cents)]]

AttributedItemsAlways(norm, mappings) ==
  LET mapped == mapItemsToProducts(norm.items, mappings)
      primary == FirstIndex(mappings, IsPrimary)
  IN IF Len(mappings) > 0 /\ primary # {}
     THEN << [quantity |-> NInt(1), unit_amount_cents |-> norm.total_cents,
              product_id |-> mappings[CHOOSE i \in primary : TRUE].product_id] >>
     ELSE mapped

\* the mapped items of the handler with its primary-product fallback
AttributedItems(norm, mappings) ==
  LET mapped == mapItemsToProducts(norm.items, mappings)
      primary == FirstIndex(mappings, IsPrimary)
  IN IF Len(mapped) = 0 /\ Len(mappings) > 0 /\ primary # {}
     THEN << [quantity |-> NInt(1), unit_amount_cents |-> norm.total_cents,
              product_id |-> mappings[CHOOSE i \in primary : TRUE].product_id] >>
     ELSE mapped

\* --------------------------------------------------------- rate limiter
Minute(now) == now \div MS_PER_MINUTE

BucketKeyNoWindow(id, minute) == <<id, 0>>

\* the key `${id}:${minute}` of a bucket
BucketKey(id, minute) == <<id, minute>>

\* (prev?.count || 0) + 1
NextCount(buckets, key) ==
  (IF key \in DOMAIN buckets THEN buckets[key].count ELSE 0) + 1

\* buckets.set(key, { ts: minute, count })
Bump(buckets, id, now) ==
  LET key == BucketKey(id, Minute(now))
  IN [k \in DOMAIN buckets \cup {key} |->
        IF k = key THEN [ts |-> Minute(now), count |-> NextCount(buckets, key)]
        ELSE buckets[k]]

allowIp(buckets, ip, now) ==
  NextCount(buckets, BucketKey(ip, Minute(now))) <= MAX_EVENTS_PER_MIN_PER_IP

allowToken(buckets, token, now) ==
  NextCount(buckets, BucketKey(token, Minute(now))) <= MAX_EVENTS_PER_MIN
\* ----------------------------------------------------------- validation
Reply(status, reason) == [status |-> status, reason |-> reason]
\* the handler goes on to the next statement
Pass == Reply(0, "")

\* if (payload.items) { ... }: array and length ceiling of the raw payload
RawItemsCheck(p) ==
  IF ~Truthy(p.items) THEN Pass
  ELSE IF p.items.t # "arr" THEN Reply(400, "items must be an array")
  ELSE IF Len(p.itemEls) > MAX_ITEMS THEN Reply(400, "Too many items")
  ELSE Pass

centsKeys == <<"subtotal_cents", "discount_cents", "tax_cents", "total_cents">>

RawCentsBadNoAbs(v) ==
  v.t \notin {"undef", "null"}
  /\ (~IsInteger(ToNumber(v)) \/ NumGt(ToNumber(v), MAX_CENTS))

\* payload[k] != null and Number(payload[k]) is no integer within the cap
RawCentsBad(v) ==
  v.t \notin {"undef", "null"}
  /\ (~IsInteger(ToNumber(v)) \/ AbsGt(ToNumber(v), MAX_CENTS))

RawCentsCheck(p) ==
  LET bad == {i \in DOMAIN centsKeys : RawCentsBad(p[centsKeys[i]])}
  IN IF bad = {} THEN Pass
     ELSE LET first == CHOOSE i \in bad : \A j \in bad : i <= j
          IN Reply(400, "Invalid value for " \o centsKeys[first])

StaleAfterEightDays(norm, now) ==
  LET evtMs == DateParse(norm.event_time)
  IN evtMs.k = "int" /\ now - evtMs.n >= (MAX_EVENT_AGE_DAYS + 1) * MS_PER_DAY

\* Date.parse gave a number and (Date.now() - evtMs) / ms-per-day exceeds 7
IsStale(norm, now) ==
  LET evtMs == DateParse(norm.event_time)
  IN evtMs.k = "int" /\ now - evtMs.n > MAX_EVENT_AGE_DAYS * MS_PER_DAY

BadUnitAmount(it) ==
  ~IsInteger(NumOrZero(it.unit_amount_cents)) \/ AbsGt(it.unit_amount_cents, MAX_CENTS)

BadQuantity(it) ==
  ~IsInteger(NumOrZero(it.quantity))
  \/ NumLt(it.quantity, 1) \/ NumGt(it.quantity, MAX_QUANTITY)

\* the deep item validation, first failing item first
ItemsCheck(norm) ==
  LET bad == {i \in DOMAIN norm.items :
                BadUnitAmount(norm.items[i]) \/ BadQuantity(norm.items[i])}
  IN IF Len(norm.items) = 0 THEN Pass
     ELSE IF Len(norm.items) > MAX_ITEMS THEN Reply(400, "Too many items")
     ELSE IF bad = {} THEN Pass
     ELSE LET first == CHOOSE i \in bad : \A j \in bad : i <= j
          IN IF BadUnitAmount(norm.items[first])
             THEN Reply(400, "Invalid unit_amount_cents")
             ELSE Reply(400, "Invalid quantity")

TotalCheck(norm) ==
  IF ~IsInteger(norm.total_cents) \/ AbsGt(norm.total_cents, MAX_CENTS)
  THEN Reply(400, "Invalid total_cents")
  ELSE Pass

\* the first reply that is not Pass, in the order given
FirstReply(replies) ==
  LET hit == {i \in DOMAIN replies : replies[i] # Pass}
  IN IF hit = {} THEN Pass ELSE replies[CHOOSE i \in hit : \A j \in hit : i <= j]

ValidationReplyStaleLast(inp, norm, now) ==
  IF inp.body.bytes > MAX_BODY_BYTES THEN Reply(413, "Payload too large")
  ELSE IF inp.body.kind = "bad" THEN Reply(400, "Invalid JSON")
  ELSE IF inp.body.kind = "scalar" THEN Reply(400, "Invalid JSON object")
  ELSE IF RawItemsCheck(inp.payload) # Pass THEN RawItemsCheck(inp.payload)
  ELSE IF RawCentsCheck(inp.payload) # Pass THEN RawCentsCheck(inp.payload)
  ELSE IF norm.throws THEN Reply(500, "exception")
  ELSE IF Detect(inp.payload) = "unsupported" THEN Reply(400, "Unsupported payload")
  ELSE FirstReply(<<
         ItemsCheck(norm),
         TotalCheck(norm),
         IF IsStale(norm, now) THEN Reply(422, "Event too old") ELSE Pass,
         IF DateValid(norm.event_time) THEN Pass ELSE Reply(500, "exception") >>)

\* From the body to the upsert call: the reply that ends the request, or
\* Pass when the upsert is issued.  norm is the result of detectAndNormalize.
ValidationReply(inp, norm, now) ==
  IF inp.body.bytes > MAX_BODY_BYTES THEN Reply(413, "Payload too large")
  ELSE IF inp.body.kind = "bad" THEN Reply(400, "Invalid JSON")
  ELSE IF inp.body.kind = "scalar" THEN Reply(400, "Invalid JSON object")
  ELSE IF RawItemsCheck(inp.payload) # Pass THEN RawItemsCheck(inp.payload)
  ELSE IF RawCentsCheck(inp.payload) # Pass THEN RawCentsCheck(inp.payload)
  ELSE IF norm.throws THEN Reply(500, "exception")
  ELSE IF Detect(inp.payload) = "unsupported" THEN Reply(400, "Unsupported payload")
  ELSE FirstReply(<<
         IF IsStale(norm, now) THEN Reply(422, "Event too old") ELSE Pass,
         ItemsCheck(norm),
         TotalCheck(norm),
         IF DateValid(norm.event_time) THEN Pass ELSE Reply(500, "exception") >>)

\* the arguments of the upsert_conversion call
UpsertParams(inp, norm) ==
  [p_workspace |-> inp.workspaceId,
   p_node |-> inp.nodeId,
   p_provider |-> norm.provider,
   p_provider_event_id |-> norm.provider_event_id,
   p_total_cents |-> norm.total_cents,
   p_event_time |-> ToISOString(norm.event_time),
   p_subtotal_cents |-> NumNullish(norm.subtotal_cents),
   p_discount_cents |-> NumNullish(norm.discount_cents),
   p_tax_cents |-> NumNullish(norm.tax_cents),
   p_items_count |-> norm.items_count]
\* ------------------------------------------------------- collaborators
\* The nodes and funnels tables the identity lookups read.
NodeIds == {"n1", "n2", "n3"}
NodeRow(nodeId) ==
  CASE nodeId = "n1" -> [funnel_id |-> "f1", webhook_token |-> JStr("tok1")]
    [] nodeId = "n2" -> [funnel_id |-> "f2", webhook_token |-> JNull]
    [] OTHER -> [funnel_id |-> "f1", webhook_token |-> JStr("tok3")]
FunnelWorkspace(funnelId) == IF funnelId = "f1" THEN "w1" ELSE "w2"

\* The key of a conversions row: (workspace, provider, provider_event_id,
\* event_time).
RowKey(row) == <<row.workspace_id, row.provider, row.provider_event_id, row.event_time>>
ParamsKey(q) == <<q.p_workspace, q.p_provider, q.p_provider_event_id, q.p_event_time>>

\* The upsert_conversion procedure of the store: inserts the row when its key
\* is new and returns it; on a key that exists it either merges and returns
\* the row (merge) or reports the conflict by returning no row.
UpsertConversion(table, q, id, merge) ==
  LET same == {row \in table : RowKey(row) = ParamsKey(q)}
      fresh == [id |-> id, workspace_id |-> q.p_workspace, provider |-> q.p_provider,
                provider_event_id |-> q.p_provider_event_id,
                event_time |-> q.p_event_time, total_cents |-> q.p_total_cents]
  IN IF same = {} THEN [table |-> table \cup {fresh}, rows |-> <<fresh>>]
     ELSE LET old == CHOOSE row \in same : TRUE
              merged == [old EXCEPT !.total_cents = q.p_total_cents]
          IN IF merge
             THEN [table |-> (table \ {old}) \cup {merged}, rows |-> <<merged>>]
             ELSE [table |-> table, rows |-> << >>]

ExistingFilterRawTime(inp, norm) ==
  <<inp.workspaceId, norm.provider, norm.provider_event_id, norm.event_time>>

\* the four .eq filters of the duplicate fallback read
ExistingFilter(inp, norm) ==
  <<inp.workspaceId, norm.provider, norm.provider_event_id, ToISOString(norm.event_time)>>

\* the rows handed to conversion_items.insert
ItemRows(inp, conversionId, conversionEventTime, mappedItems) ==
  [i \in DOMAIN mappedItems |->
     [workspace_id |-> inp.workspaceId,
      conversion_id |-> conversionId,
      conversion_event_time |-> conversionEventTime,
      product_id |-> mappedItems[i].product_id,
      quantity |-> mappedItems[i].quantity,
      unit_amount_cents |-> mappedItems[i].unit_amount_cents]]

\* ----------------------------------------------------------------- state
VARIABLES
  now,               \* Date.now(), in milliseconds
  ticks,             \* minutes the clock has advanced
  ipBuckets,         \* Map key -> {ts, count}
  tokenBuckets,      \* Map key -> {ts, count}
  req,               \* the requests in flight: position and locals of each
  conversions,       \* the conversions table
  conversion_items,  \* the conversion_items table
  node_products,     \* the node_products rows of node n1 in workspace w1
  rnd,               \* number of cryptoRandomId draws so far
  arrivals,          \* history: calls of each limiter per key and window
  last,              \* history: the last request that reached the limiters
  mode,              \* which inputs the environment sends
  faults,            \* collaborator calls that failed so far
  fin, fout          \* argument and result of a function applied on its own

vars == <<now, ticks, ipBuckets, tokenBuckets, req, conversions, conversion_items,
          node_products, rnd, arrivals, last, mode, faults, fin, fout>>

Reqs == 1..NReq

\* the clock at start: late enough for events twelve days old
Now0 == 12 * MS_PER_DAY

NoInput ==
  [method |-> "POST", ctype |-> TRUE, clen |-> 0, path_ok |-> TRUE,
   workspaceId |-> "", nodeId |-> "", token |-> "", ip |-> "",
   body |-> [kind |-> "obj", bytes |-> 0], payload |-> EmptyPayload]

NoParams ==
  [p_workspace |-> "", p_node |-> "", p_provider |-> JUndef,
   p_provider_event_id |-> JUndef, p_total_cents |-> NUndef,
   p_event_time |-> JUndef, p_subtotal_cents |-> NUndef,
   p_discount_cents |-> NUndef, p_tax_cents |-> NUndef, p_items_count |-> 0]

InitReq ==
  [pc |-> "idle", inp |-> NoInput, status |-> 0, reason |-> "",
   funnel_id |-> "", webhook_token |-> JUndef,
   norm |-> NoEvent, params |-> NoParams, checkedAt |-> 0,
   convRows |-> "none", conversionId |-> 0, conversionEventTime |-> JUndef,
   mappings |-> << >>, rows |-> << >>, errs |-> {}, ipK |-> 0, tokK |-> 0,
   seen |-> {}]

NoLast == [ip |-> "", token |-> "", minute |-> 0, ipK |-> 0, tokK |-> 0,
           ipOk |-> FALSE, tokOk |-> FALSE]

Count(f, key) == IF key \in DOMAIN f THEN f[key] ELSE 0
Incremented(f, key) ==
  [k \in DOMAIN f \cup {key} |-> IF k = key THEN Count(f, key) + 1 ELSE f[k]]

\* ---------------------------------------------------------------- actions
\* lines 100-102: allowIp, then allowToken when the address was admitted
Limit(ip, token) ==
  LET ipOk == allowIp(ipBuckets, ip, now)
      ipKey == <<"ip", ip, Minute(now)>>
      tokKey == <<"token", token, Minute(now)>>
  IN /\ ipBuckets' = Bump(ipBuckets, ip, now)
     /\ tokenBuckets' = IF ipOk THEN Bump(tokenBuckets, token, now) ELSE tokenBuckets
     /\ arrivals' = IF ipOk THEN Incremented(Incremented(arrivals, ipKey), tokKey)
                    ELSE Incremented(arrivals, ipKey)
     /\ last' = [ip |-> ip, token |-> token, minute |-> Minute(now),
                 ipK |-> Count(arrivals, ipKey) + 1,
                 tokK |-> IF ipOk THEN Count(arrivals, tokKey) + 1 ELSE 0,
                 ipOk |-> ipOk,
                 tokOk |-> ipOk /\ allowToken(tokenBuckets, token, now)]
\* ------------------------------------------------------------- inputs
\* a timestamp string d days and ms milliseconds before the start
Ago(d, ms, fmt) == JTime(Now0 - d * MS_PER_DAY - ms, fmt)

Request(ws, node, token, ip, payload) ==
  [NoInput EXCEPT !.clen = 200, !.workspaceId = ws, !.nodeId = node,
                  !.token = token, !.ip = ip, !.body = [kind |-> "obj", bytes |-> 200],
                  !.payload = payload]
Authorized(payload) == Request("w1", "n1", "tok1", "ip1", payload)

\* the README payload: custom shape, one item of 9900
ReadmePayload ==
  [EmptyPayload EXCEPT !.provider = JStr("custom"), !.type = JStr("purchase"),
     !.provider_event_id = JStr("order_123"), !.currency = JStr("USD"),
     !.total_cents = JInt(9900), !.items = JArr(1),
     !.itemEls = <<Item(JInt(1), JInt(9900))>>]
PaddlePayload(fmt) ==
  [EmptyPayload EXCEPT !.alert_id = JStr("alert_1"), !.event_time = Ago(6, 0, fmt),
     !.sale_gross = JInt(50)]
StripePayload ==
  [EmptyPayload EXCEPT !.object = JStr("event"), !.id = JStr("evt_1"),
     !.type = JStr("checkout.session.completed"),
     !.created = JInt((Now0 - MS_PER_DAY) \div 1000), !.o_amount_total = JInt(5000)]
ShopifyPayload ==
  [EmptyPayload EXCEPT !.id = JInt(77), !.line_items = JArr(1),
     !.lineEls = <<Item(JInt(2), JInt(10))>>, !.total_price = JInt(20),
     !.created_at = Ago(1, 0, "iso")]

\* requests that fail at the transport boundary or at a gate
GateInputs ==
  { [Authorized(ReadmePayload) EXCEPT !.method = "OPTIONS"],
    [Authorized(ReadmePayload) EXCEPT !.ctype = FALSE],
    [Authorized(ReadmePayload) EXCEPT !.clen = MAX_BODY_BYTES + 1],
    [Authorized(ReadmePayload) EXCEPT !.path_ok = FALSE],
    Request("w1", "n1", "tok1", "ipHot", ReadmePayload),
    Request("w1", "n3", "tok3", "ip1", ReadmePayload),
    Request("w1", "nX", "tok1", "ip1", ReadmePayload),
    Request("w2", "n1", "tok1", "ip1", ReadmePayload),
    Request("w1", "n1", "bad", "ip2", ReadmePayload),
    Request("w2", "n2", "tok1", "ip2", ReadmePayload) }

\* the inputs of the concurrent specification: duplicates in two spellings of
\* one instant, an event with an item, and a gate failure
ConcurrentInputs ==
  { Authorized(PaddlePayload("iso")), Authorized(PaddlePayload("alt")),
    Authorized(ReadmePayload),
    Request("w1", "n1", "bad", "ip2", ReadmePayload) }

\* a custom payload without items
CustomPayload == [EmptyPayload EXCEPT !.total_cents = JInt(100), !.id = JStr("c1")]
LemonPayload ==
  [EmptyPayload EXCEPT !.meta_event_name = JStr("order_created"),
     !.meta_event_id = JStr("lemon_1"), !.attr_total = JInt(700),
     !.attr_created_at = Ago(1, 0, "iso")]

\* values sent for a *_cents field
CentsValues ==
  { JInt(MAX_CENTS), JInt(MAX_CENTS + 1), JInt(-MAX_CENTS), JInt(-MAX_CENTS - 1),
    JInt(0), JFrac(1), JStr("12"), JStr("abc"), JStr(""), JBool(TRUE), JNull,
    JArr(0), JObj }
WithField(p, k, v) == [p EXCEPT ![k] = v]
CentsPayloads ==
  { WithField(CustomPayload, centsKeys[i], v) : i \in DOMAIN centsKeys, v \in CentsValues }
  \cup { WithField(q, centsKeys[i], v) :
           q \in {StripePayload, ShopifyPayload}, i \in DOMAIN centsKeys,
           v \in {JInt(MAX_CENTS + 1), JFrac(1), JInt(5)} }
\* totals that the normalizers derive from provider fields
DerivedTotalPayloads ==
  { [StripePayload EXCEPT !.o_amount_total = v, !.created = c] :
      v \in {JInt(MAX_CENTS), JInt(MAX_CENTS + 1), JFrac(2), JStr("abc")},
      c \in {JInt((Now0 - MS_PER_DAY) \div 1000), JInt((Now0 - 8 * MS_PER_DAY) \div 1000)} }
  \cup { [PaddlePayload("iso") EXCEPT !.sale_gross = v] :
           v \in {JInt(999), JInt(1000), JFrac(5), JInt(MAX_CENTS + 1), JStr("abc")} }
  \cup { [ShopifyPayload EXCEPT !.total_price = v] :
           v \in {JInt(MAX_CENTS \div 100), JInt(MAX_CENTS \div 100 + 1), JFrac(1)} }
  \cup { [LemonPayload EXCEPT !.attr_total = v] :
           v \in {JFrac(1), JInt(MAX_CENTS + 1), JInt(-MAX_CENTS - 1)} }

\* values sent for the quantity of a line item
QuantityValues ==
  { JInt(1), JInt(MAX_QUANTITY), JInt(MAX_QUANTITY + 1), JInt(0), JInt(-1),
    JFrac(1), JStr("5"), JStr("abc"), JStr("2000"), JNull, JUndef, JBool(TRUE), JObj }
ItemPayloads ==
  { [ReadmePayload EXCEPT !.itemEls = <<Item(q, JInt(500))>>] : q \in QuantityValues }
  \cup { [ReadmePayload EXCEPT !.items = JArr(2),
                               !.itemEls = <<Item(JInt(3), JInt(1040)), Item(q, JInt(500))>>] :
           q \in QuantityValues }
  \cup { [ShopifyPayload EXCEPT !.lineEls = <<Item(q, JInt(10))>>, !.created_at = t] :
           q \in QuantityValues, t \in {Ago(1, 0, "iso"), Ago(8, 0, "iso")} }

\* ages around the seven-day limit, a future event and an unreadable time
TimeValues ==
  { Ago(6, 0, "iso"), Ago(7, 0, "iso"), Ago(7, 0, "alt"), Ago(7, 1, "iso"),
    Ago(8, 0, "iso"), Ago(-1, 0, "iso"), JStr("yesterday") }
TimePayloads ==
  { [PaddlePayload("iso") EXCEPT !.event_time = t] : t \in TimeValues }
  \cup { [ShopifyPayload EXCEPT !.created_at = t] : t \in TimeValues }
  \cup { [LemonPayload EXCEPT !.attr_created_at = t] : t \in TimeValues }
  \cup { [StripePayload EXCEPT !.created = JInt((Now0 - d * MS_PER_DAY) \div 1000)] :
           d \in {6, 7, 8} }

\* fields of a JSON type the normalizers do not expect
TypePayloads ==
  { [CustomPayload EXCEPT !.currency = JInt(5)],
    [ReadmePayload EXCEPT !.itemEls = <<NullItem>>],
    [ShopifyPayload EXCEPT !.lineEls = <<NullItem>>],
    [ShopifyPayload EXCEPT !.currency = JInt(5)],
    [StripePayload EXCEPT !.created = JStr("abc")],
    [StripePayload EXCEPT !.o_currency = JInt(1)],
    [PaddlePayload("iso") EXCEPT !.currency = JBool(TRUE)],
    [LemonPayload EXCEPT !.attr_currency = JInt(5)] }

\* values sent for the unit amount of an item, and for a Shopify price
AmountValues ==
  { JInt(MAX_CENTS), JInt(MAX_CENTS + 1), JInt(-MAX_CENTS - 1), JInt(0), JFrac(1),
    JStr("12"), JStr("abc"), JNull, JObj }
PriceValues ==
  { JInt(MAX_CENTS \div 100), JInt(MAX_CENTS \div 100 + 1), JFrac(1), JStr("abc") }
AmountPayloads ==
  { [ReadmePayload EXCEPT !.itemEls = <<Item(JInt(1), a)>>] : a \in AmountValues }
  \cup { [ShopifyPayload EXCEPT !.lineEls = <<Item(JInt(1), a)>>] : a \in PriceValues }

\* values sent for the provider field of a custom payload
ProviderValues == { JStr("stripe"), JStr("evil"), JInt(5), JStr("") }
ProviderPayloads == { [ReadmePayload EXCEPT !.provider = v] : v \in ProviderValues }

\* events older than seven days that also carry an out-of-cap cents field
StaleInvalidPayloads ==
  { [PaddlePayload("iso") EXCEPT !.event_time = Ago(8, 0, "iso"), ![k] = JInt(MAX_CENTS + 1)] :
      k \in {"total_cents", "tax_cents"} }

\* bodies that are no JSON object, or too long
BodyInputs ==
  { [Authorized(EmptyPayload) EXCEPT !.body = [kind |-> "bad", bytes |-> 200]],
    [Authorized(EmptyPayload) EXCEPT !.body = [kind |-> "scalar", bytes |-> 200]],
    [Authorized(ReadmePayload) EXCEPT !.clen = 0,
        !.body = [kind |-> "obj", bytes |-> MAX_BODY_BYTES + 1]] }

\* the inputs of the single-request specification
WideInputs ==
  GateInputs \cup BodyInputs \cup
  { Authorized(q) :
      q \in {ReadmePayload, CustomPayload, StripePayload, ShopifyPayload, LemonPayload,
             EmptyPayload, PaddlePayload("iso"), PaddlePayload("alt"),
             [CustomPayload EXCEPT !.items = JArr(0)],
             [CustomPayload EXCEPT !.items = JStr("x")]}
            \cup CentsPayloads \cup DerivedTotalPayloads \cup ItemPayloads
            \cup TimePayloads \cup TypePayloads \cup AmountPayloads
            \cup ProviderPayloads \cup StaleInvalidPayloads }

Pool(m) == IF m = "wide" THEN WideInputs ELSE ConcurrentInputs

\* the node_products tables the environment may hold for node n1
PrimaryTable == <<Mapping("pA", FALSE, <<1000>>), Mapping("pB", TRUE, << >>)>>
MappingTables == { << >>, <<Mapping("pA", FALSE, <<1000>>)>>, PrimaryTable }

\* the row an earlier request stored for the event of PaddlePayload
PriorRows ==
  { [id |-> 0, workspace_id |-> "w1", provider |-> JStr("paddle"),
     provider_event_id |-> JStr("alert_1"), event_time |-> Ago(6, 0, "iso"),
     total_cents |-> NInt(5000)] }

\* buckets of an address and a token that used up their minute already
HotIpBuckets ==
  [k \in {BucketKey("ipHot", Minute(Now0))} |->
     [ts |-> Minute(Now0), count |-> MAX_EVENTS_PER_MIN_PER_IP]]
HotTokenBuckets ==
  [k \in {BucketKey("tok3", Minute(Now0))} |->
     [ts |-> Minute(Now0), count |-> MAX_EVENTS_PER_MIN]]
HotArrivals ==
  [k \in {<<"ip", "ipHot", Minute(Now0)>>, <<"token", "tok3", Minute(Now0)>>} |->
     IF k[1] = "ip" THEN MAX_EVENTS_PER_MIN_PER_IP ELSE MAX_EVENTS_PER_MIN]

\* ------------------------------------------------------ handler actions
\* the request r goes on as rec; seen collects the positions it has left
Put(r, rec) == req' = [req EXCEPT ![r] = [rec EXCEPT !.seen = @ \cup {req[r].pc}]]
Ended(rec, reply) ==
  [rec EXCEPT !.pc = "done", !.status = reply.status, !.reason = reply.reason]

\* lines 76-96: what is answered before the limiters run
TransportReply(inp) ==
  IF inp.method = "OPTIONS" THEN Reply(204, "")
  ELSE IF ~inp.ctype THEN Reply(415, "Content-Type must be application/json")
  ELSE IF inp.clen > MAX_BODY_BYTES THEN Reply(413, "Payload too large")
  ELSE IF ~inp.path_ok THEN Reply(404, "Not found")
  ELSE Pass

\* lines 76-104: a request arrives and runs up to the node lookup
Arrive(r) ==
  /\ req[r].pc = "idle"
  /\ r > 1 => req[r - 1].pc # "idle"
  /\ mode = "wide" => r = 1
  /\ mode \in {"conc", "wide"}
  /\ \E inp \in Pool(mode) :
       LET rec == [req[r] EXCEPT !.inp = inp]
           ipOk == allowIp(ipBuckets, inp.ip, now)
           tokOk == allowToken(tokenBuckets, inp.token, now)
           counted == [rec EXCEPT
                         !.ipK = Count(arrivals, <<"ip", inp.ip, Minute(now)>>) + 1,
                         !.tokK = IF ipOk
                                  THEN Count(arrivals, <<"token", inp.token, Minute(now)>>) + 1
                                  ELSE 0]
       IN IF TransportReply(inp) # Pass
          THEN /\ Put(r, Ended(rec, TransportReply(inp)))
               /\ UNCHANGED <<ipBuckets, tokenBuckets, arrivals, last>>
          ELSE /\ Limit(inp.ip, inp.token)
               /\ Put(r, IF ~ipOk THEN Ended(counted, Reply(429, "Too many requests (IP)"))
                         ELSE IF ~tokOk
                         THEN Ended(counted, Reply(429, "Too many requests (token)"))
                         ELSE [counted EXCEPT !.pc = "node"])
  /\ UNCHANGED <<now, ticks, conversions, conversion_items, node_products, rnd,
                 mode, faults, fin, fout>>

\* a collaborator call fails (err) or answers; at most MaxFaults calls fail
Outcomes == IF faults < MaxFaults THEN BOOLEAN ELSE {FALSE}
Fault(err) == faults' = IF err THEN faults + 1 ELSE faults

DbUnchanged == UNCHANGED <<conversions, conversion_items, node_products>>
LimiterUnchanged == UNCHANGED <<ipBuckets, tokenBuckets, arrivals, last>>
EnvUnchanged == UNCHANGED <<now, ticks, mode, fin, fout>>

\* lines 107-112: the answer of the nodes query reaches the handler
AfterNodeLookup(rec, err) ==
  IF err \/ rec.inp.nodeId \notin NodeIds
  THEN Ended([rec EXCEPT !.errs = IF err THEN @ \cup {"node"} ELSE @],
             Reply(404, "Node not found"))
  ELSE [rec EXCEPT !.pc = "funnel",
                   !.funnel_id = NodeRow(rec.inp.nodeId).funnel_id,
                   !.webhook_token = NodeRow(rec.inp.nodeId).webhook_token]

NodeLookup(r) ==
  /\ req[r].pc = "node"
  /\ \E err \in Outcomes : Put(r, AfterNodeLookup(req[r], err)) /\ Fault(err)
  /\ DbUnchanged /\ LimiterUnchanged /\ EnvUnchanged /\ UNCHANGED rnd

AfterFunnelLookupNoTokenCheck(rec, err) ==
  IF err \/ FunnelWorkspace(rec.funnel_id) # rec.inp.workspaceId
  THEN Ended([rec EXCEPT !.errs = IF err THEN @ \cup {"funnel"} ELSE @],
             Reply(403, "Workspace mismatch"))
  ELSE [rec EXCEPT !.pc = "body"]

\* lines 114-124: the answer of the funnels query, then the token comparison
AfterFunnelLookup(rec, err) ==
  IF err \/ FunnelWorkspace(rec.funnel_id) # rec.inp.workspaceId
  THEN Ended([rec EXCEPT !.errs = IF err THEN @ \cup {"funnel"} ELSE @],
             Reply(403, "Workspace mismatch"))
  ELSE IF ~Truthy(rec.webhook_token) \/ JStr(rec.inp.token) # rec.webhook_token
  THEN Ended(rec, Reply(403, "Invalid token"))
  ELSE [rec EXCEPT !.pc = "body"]

FunnelLookup(r) ==
  /\ req[r].pc = "funnel"
  /\ \E err \in Outcomes : Put(r, AfterFunnelLookup(req[r], err)) /\ Fault(err)
  /\ DbUnchanged /\ LimiterUnchanged /\ EnvUnchanged /\ UNCHANGED rnd

\* the payload reaches detectAndNormalize (line 160)
ReachesNormalize(inp) ==
  /\ inp.body.bytes <= MAX_BODY_BYTES /\ inp.body.kind = "obj"
  /\ RawItemsCheck(inp.payload) = Pass /\ RawCentsCheck(inp.payload) = Pass

\* lines 127-209: body, JSON, validation, normalization, and the upsert call
\* is issued
AfterBody(rec, norm, t) ==
  LET reply == ValidationReply(rec.inp, norm, t)
      seen == IF ReachesNormalize(rec.inp)
              THEN [rec EXCEPT !.norm = norm, !.checkedAt = t]
              ELSE rec
  IN IF reply # Pass THEN Ended(seen, reply)
     ELSE [seen EXCEPT !.pc = "upsert", !.params = UpsertParams(rec.inp, norm)]

ReadBody(r) ==
  /\ req[r].pc = "body"
  /\ LET norm == detectAndNormalize(req[r].inp.payload, now, RandomId(rnd + 1))
     IN /\ Put(r, AfterBody(req[r], norm, now))
        /\ rnd' = IF ReachesNormalize(req[r].inp)
                     /\ norm.provider_event_id = RandomId(rnd + 1)
                  THEN rnd + 1 ELSE rnd
  /\ DbUnchanged /\ LimiterUnchanged /\ EnvUnchanged /\ UNCHANGED faults

AfterUpsertUnresolved(rec, err, rows) ==
  IF err THEN Ended([rec EXCEPT !.errs = @ \cup {"upsert"}], Reply(500, "downstream"))
  ELSE IF Len(rows) > 0
  THEN [rec EXCEPT !.pc = "mappings", !.convRows = "row",
                   !.conversionId = rows[1].id,
                   !.conversionEventTime = rows[1].event_time]
  ELSE [rec EXCEPT !.pc = "mappings", !.convRows = "empty",
                   !.conversionEventTime = rec.params.p_event_time]

\* lines 210-218: the answer of upsert_conversion reaches the handler
AfterUpsert(rec, err, rows) ==
  IF err THEN Ended([rec EXCEPT !.errs = @ \cup {"upsert"}], Reply(500, "downstream"))
  ELSE IF Len(rows) > 0
  THEN [rec EXCEPT !.pc = "mappings", !.convRows = "row",
                   !.conversionId = rows[1].id,
                   !.conversionEventTime = rows[1].event_time]
  ELSE [rec EXCEPT !.pc = "existing", !.convRows = "empty"]

\* the store runs upsert_conversion, or the call fails and changes nothing
Upsert(r) ==
  /\ req[r].pc = "upsert"
  /\ \E err \in Outcomes, merge \in BOOLEAN :
       LET res == UpsertConversion(conversions, req[r].params, r, merge)
       IN /\ conversions' = IF err THEN conversions ELSE res.table
          /\ Put(r, AfterUpsert(req[r], err, res.rows))
          /\ Fault(err)
  /\ LimiterUnchanged /\ EnvUnchanged /\ UNCHANGED <<conversion_items, node_products, rnd>>

AfterExistingNoItems(rec, err, table) ==
  LET match == {row \in table : RowKey(row) = ExistingFilter(rec.inp, rec.norm)}
  IN IF err \/ Cardinality(match) # 1
     THEN Ended([rec EXCEPT !.errs = IF err THEN @ \cup {"existing"} ELSE @],
                Reply(500, "downstream"))
     ELSE LET existing == CHOOSE row \in match : TRUE
          IN Ended([rec EXCEPT !.conversionId = existing.id,
                               !.conversionEventTime = existing.event_time],
                   Reply(200, "ok"))

\* lines 220-230: the duplicate fallback read; single() fails unless exactly
\* one row matches
AfterExisting(rec, err, table) ==
  LET match == {row \in table : RowKey(row) = ExistingFilter(rec.inp, rec.norm)}
  IN IF err \/ Cardinality(match) # 1
     THEN Ended([rec EXCEPT !.errs = IF err THEN @ \cup {"existing"} ELSE @],
                Reply(500, "downstream"))
     ELSE LET existing == CHOOSE row \in match : TRUE
          IN [rec EXCEPT !.pc = "mappings", !.conversionId = existing.id,
                         !.conversionEventTime = existing.event_time]

ReadExisting(r) ==
  /\ req[r].pc = "existing"
  /\ \E err \in Outcomes : Put(r, AfterExisting(req[r], err, conversions)) /\ Fault(err)
  /\ DbUnchanged /\ LimiterUnchanged /\ EnvUnchanged /\ UNCHANGED rnd

\* fetchNodeProductMappings: an error of the query becomes the empty list
fetchNodeProductMappings(table, workspaceId, nodeId, err) ==
  IF err THEN << >>
  ELSE IF workspaceId = "w1" /\ nodeId = "n1" THEN table ELSE << >>

Filtered(seq, keep) ==
  LET F[i \in 0..Len(seq)] ==
        IF i = 0 THEN << >>
        ELSE IF seq[i] \in keep THEN Append(F[i - 1], seq[i]) ELSE F[i - 1]
  IN F[Len(seq)]
AfterMappingsDropUnmatched(rec, err, mappings) ==
  LET all == AttributedItems(rec.norm, mappings)
      mappedItems == Filtered(all, {all[i] : i \in {j \in DOMAIN all :
                                                      all[j].product_id # NoProduct}})
      noted == [rec EXCEPT !.mappings = mappings,
                           !.errs = IF err THEN @ \cup {"mappings"} ELSE @]
  IN IF Len(mappedItems) > 0
     THEN [noted EXCEPT !.pc = "insert",
                        !.rows = ItemRows(rec.inp, rec.conversionId,
                                          rec.conversionEventTime, mappedItems)]
     ELSE Ended(noted, Reply(200, "ok"))

AfterMappingsRejectEmpty(rec, err, mappings) ==
  LET mappedItems == AttributedItems(rec.norm, mappings)
      noted == [rec EXCEPT !.mappings = mappings,
                           !.errs = IF err THEN @ \cup {"mappings"} ELSE @]
  IN IF Len(mappedItems) > 0
     THEN [noted EXCEPT !.pc = "insert",
                        !.rows = ItemRows(rec.inp, rec.conversionId,
                                          rec.conversionEventTime, mappedItems)]
     ELSE Ended(noted, Reply(400, "No items"))

\* lines 234-265: mappings fetched, items attributed, the rows to insert built
AfterMappings(rec, err, mappings) ==
  LET mappedItems == AttributedItems(rec.norm, mappings)
      noted == [rec EXCEPT !.mappings = mappings,
                           !.errs = IF err THEN @ \cup {"mappings"} ELSE @]
  IN IF Len(mappedItems) > 0
     THEN [noted EXCEPT !.pc = "insert",
                        !.rows = ItemRows(rec.inp, rec.conversionId,
                                          rec.conversionEventTime, mappedItems)]
     ELSE Ended(noted, Reply(200, "ok"))

FetchMappings(r) ==
  /\ req[r].pc = "mappings"
  /\ \E err \in Outcomes :
       /\ Put(r, AfterMappings(req[r], err,
                fetchNodeProductMappings(node_products, req[r].inp.workspaceId,
                                         req[r].inp.nodeId, err)))
       /\ Fault(err)
  /\ DbUnchanged /\ LimiterUnchanged /\ EnvUnchanged /\ UNCHANGED rnd

AfterInsertRetry(rec, err) ==
  IF err THEN [rec EXCEPT !.errs = @ \cup {"insert"}]
  ELSE Ended(rec, Reply(200, "ok"))

\* lines 266-270: the batch insert, then the 200
AfterInsert(rec, err) ==
  IF err THEN Ended([rec EXCEPT !.errs = @ \cup {"insert"}], Reply(500, "downstream"))
  ELSE Ended(rec, Reply(200, "ok"))

\* the stored form of the rows of one insert call
Stored(r, rows) ==
  {[by |-> r, ord |-> i, row |-> rows[i]] : i \in DOMAIN rows}

InsertItems(r) ==
  /\ req[r].pc = "insert"
  /\ \E err \in Outcomes :
       /\ Fault(err)
       /\ Put(r, AfterInsert(req[r], err))
       /\ conversion_items' = IF err THEN conversion_items
                              ELSE conversion_items \cup Stored(r, req[r].rows)
  /\ LimiterUnchanged /\ EnvUnchanged /\ UNCHANGED <<conversions, node_products, rnd>>

\* the clock moves on by one minute; with concurrent requests the model
\* lets it move only while no request is in flight, and with the limiter on
\* its own only before the first request or right after a rejected one
Tick ==
  /\ ticks < MaxTicks
  /\ mode \in {"conc", "wide", "rate"}
  /\ mode = "conc" => \A r \in Reqs : req[r].pc \in {"idle", "done"}
  /\ mode = "rate" => last = NoLast \/ ~last.tokOk
  /\ now' = now + MS_PER_MINUTE
  /\ ticks' = ticks + 1
  /\ UNCHANGED <<ipBuckets, tokenBuckets, req, conversions, conversion_items,
                 node_products, rnd, arrivals, last, mode, faults, fin, fout>>

\* -------------------------------------------------------- specifications
InitHandler(m) ==
  /\ mode = m
  /\ now = Now0 /\ ticks = 0
  /\ ipBuckets = HotIpBuckets /\ tokenBuckets = HotTokenBuckets
  /\ arrivals = HotArrivals /\ last = NoLast
  /\ req = [r \in Reqs |-> InitReq]
  /\ conversions = (IF m = "wide" THEN PriorRows ELSE {}) /\ conversion_items = {}
  /\ node_products \in (IF m = "wide" THEN MappingTables ELSE {PrimaryTable})
  /\ rnd = 0 /\ faults = 0
  /\ fin = 0 /\ fout = 0

Init == InitHandler("conc")
InitWide == InitHandler("wide")

Next ==
  \/ \E r \in Reqs : Arrive(r)
  \/ \E r \in Reqs : NodeLookup(r)
  \/ \E r \in Reqs : FunnelLookup(r)
  \/ \E r \in Reqs : ReadBody(r)
  \/ \E r \in Reqs : Upsert(r)
  \/ \E r \in Reqs : ReadExisting(r)
  \/ \E r \in Reqs : FetchMappings(r)
  \/ \E r \in Reqs : InsertItems(r)
  \/ Tick

Spec == Init /\ [][Next]_vars
\* one request, drawn from the wide set of inputs
SpecWide == InitWide /\ [][Next]_vars

\* ----------------------------------------------- the limiter on its own
\* Requests that reach lines 100-102 and are followed no further.  In the
\* first minute three addresses send with one token, each at most MaxOver
\* requests beyond its limit, the next address starting once the one before
\* it is within MaxOver of its limit; a second token and the later minutes
\* see at most MaxOver requests each.
RateIps == <<"ip1", "ip2", "ip3">>
SentBy(ip) == Count(arrivals, <<"ip", ip, Minute(now)>>)

RateRequest(i, token) ==
  /\ mode = "rate"
  /\ SentBy(RateIps[i]) < MAX_EVENTS_PER_MIN_PER_IP + MaxOver
  /\ i > 1 => SentBy(RateIps[i - 1]) >= MAX_EVENTS_PER_MIN_PER_IP - MaxOver
  /\ ticks > 0 => i = 1 /\ SentBy(RateIps[1]) < MaxOver
  /\ token = "tok2" => i = 1 /\ Count(arrivals, <<"token", "tok2", Minute(now)>>) < MaxOver
  /\ Limit(RateIps[i], token)
  /\ UNCHANGED <<now, ticks, req, conversions, conversion_items, node_products, rnd,
                 mode, faults, fin, fout>>

InitRate ==
  /\ mode = "rate"
  /\ now = Now0 /\ ticks = 0
  /\ ipBuckets = << >> /\ tokenBuckets = << >>
  /\ arrivals = << >> /\ last = NoLast
  /\ req = [r \in Reqs |-> InitReq]
  /\ conversions = {} /\ conversion_items = {}
  /\ node_products = << >>
  /\ rnd = 0 /\ faults = 0
  /\ fin = 0 /\ fout = 0

NextRate ==
  \/ \E i \in DOMAIN RateIps, token \in {"tok1", "tok2"} : RateRequest(i, token)
  \/ Tick

SpecRate == InitRate /\ [][NextRate]_vars

\* ------------------------------------------- the detector on its own
DetectInputs ==
  { [EmptyPayload EXCEPT
       !.object = f.object, !.type = f.type, !.alert_id = f.alert_id,
       !.event_time = f.event_time, !.order_id = f.order_id,
       !.meta_event_name = f.meta_event_name, !.attr_total = f.attr_total,
       !.line_items = f.line_items,
       !.lineEls = IF f.line_items = JArr(1) THEN <<Item(JInt(1), JInt(10))>> ELSE << >>,
       !.total_price = f.total_price, !.subtotal_price = f.subtotal_price,
       !.total_cents = f.total_cents, !.items = f.items,
       !.itemEls = IF f.items = JArr(1) THEN <<Item(JInt(1), JInt(500))>> ELSE << >>] :
    f \in [object : {JUndef, JStr("event")},
           type : {JUndef, JStr("order.created"), JStr("purchase")},
           alert_id : {JUndef, JStr("alert_1"), JInt(0)},
           event_time : {JUndef, Ago(1, 0, "iso")},
           order_id : {JUndef, JInt(9)},
           meta_event_name : {JUndef, JStr("order_created")},
           attr_total : {JUndef, JInt(700)},
           line_items : {JUndef, JArr(1), JArr(0)},
           total_price : {JUndef, JInt(20), JInt(0)},
           subtotal_price : {JUndef, JInt(10)},
           total_cents : {JUndef, JInt(5), JInt(0)},
           items : {JUndef, JArr(1)}] }

\* detectAndNormalize is applied to the payload once more (at most twice),
\* each time with its own clock reading and random identifier
ApplyDetect ==
  /\ mode = "detect"
  /\ Len(fout) < 2
  /\ fout' = Append(fout, [shape |-> Detect(fin),
                           event |-> detectAndNormalize(fin, now + Len(fout),
                                                        RandomId(Len(fout) + 1))])
  /\ UNCHANGED <<now, ticks, ipBuckets, tokenBuckets, req, conversions,
                 conversion_items, node_products, rnd, arrivals, last, mode, faults, fin>>

InitDetect ==
  /\ mode = "detect"
  /\ now = Now0 /\ ticks = 0
  /\ ipBuckets = << >> /\ tokenBuckets = << >>
  /\ arrivals = << >> /\ last = NoLast
  /\ req = [r \in Reqs |-> InitReq]
  /\ conversions = {} /\ conversion_items = {}
  /\ node_products = << >>
  /\ rnd = 0 /\ faults = 0
  /\ fin \in DetectInputs /\ fout = << >>

SpecDetect == InitDetect /\ [][ApplyDetect]_vars

\* ---------------------------------------- mapItemsToProducts on its own
\* longest list of mappings tried
MaxMappings == 2
ProductName(i) == CASE i = 1 -> "p1" [] i = 2 -> "p2" [] i = 3 -> "p3" [] OTHER -> "p4"
PointLists == { << >>, <<1000>>, <<1>>, <<0>>, <<20>>, <<5000, 1040>> }
MapTables ==
  UNION { { [i \in 1..n |-> Mapping(ProductName(i), f[i].prim, f[i].pts)] :
            f \in [1..n -> [prim : BOOLEAN, pts : PointLists]] } :
          n \in 0..MaxMappings }
MapAmounts == {0, 1, 2, 19, 21, 22, 949, 950, 989, 1049, 1050, 1051, 1092, 1093}

ApplyMap ==
  /\ mode = "map"
  /\ fout = << >>
  /\ fout' = mapItemsToProducts(
               <<[quantity |-> NInt(1), unit_amount_cents |-> NInt(fin.amount)]>>,
               fin.mappings)
  /\ UNCHANGED <<now, ticks, ipBuckets, tokenBuckets, req, conversions,
                 conversion_items, node_products, rnd, arrivals, last, mode, faults, fin>>

InitMap ==
  /\ mode = "map"
  /\ now = Now0 /\ ticks = 0
  /\ ipBuckets = << >> /\ tokenBuckets = << >>
  /\ arrivals = << >> /\ last = NoLast
  /\ req = [r \in Reqs |-> InitReq]
  /\ conversions = {} /\ conversion_items = {}
  /\ node_products = << >>
  /\ rnd = 0 /\ faults = 0
  /\ fin \in [amount : MapAmounts, mappings : MapTables] /\ fout = << >>

SpecMap == InitMap /\ [][ApplyMap]_vars

\* ===================================================================
\* Properties
\* ===================================================================
Done(r) == req[r].pc = "done"
\* the upsert call of r was issued
Issued(r) == req[r].params # NoParams
\* the conversions rows with the key of r's upsert call
RowsOf(r) == {row \in conversions : RowKey(row) = ParamsKey(req[r].params)}
\* the conversion_items rows r inserted
ItemsBy(r) == {it \in conversion_items : it.by = r}
\* an integer within the cents cap
CentsInRange(x) == x.k = "int" /\ -MAX_CENTS <= x.n /\ x.n <= MAX_CENTS

\* C1: two submissions with the same (workspace, provider, provider_event_id,
\* occurred_at) leave exactly one conversions row for it, and every handler
\* whose upsert was answered ends with 200 unless a collaborator call
\* failed; the one that got no row back resolved the stored row by the
\* fallback read.
C1_OneRowPerTuple ==
  /\ \A x \in conversions, y \in conversions : RowKey(x) = RowKey(y) => x = y
  /\ \A r \in Reqs :
       (Done(r) /\ req[r].convRows # "none" /\ req[r].errs = {}) =>
         /\ req[r].status = 200
         /\ Cardinality(RowsOf(r)) = 1
         /\ \A row \in RowsOf(r) :
              req[r].conversionId = row.id /\ req[r].conversionEventTime = row.event_time

\* two duplicates in different spellings of the instant both ended with 200,
\* the second through the fallback read, and one row is stored
C1_Witness ==
  /\ Done(1) /\ Done(2) /\ req[1].status = 200 /\ req[2].status = 200
  /\ req[1].inp.payload.event_time # req[2].inp.payload.event_time
  /\ ParamsKey(req[1].params) = ParamsKey(req[2].params)
  /\ req[2].convRows = "empty"
  /\ Cardinality(conversions) = 1

\* r got through the gates: it went on to read the body
PastGates(r) == "body" \in req[r].seen
\* nothing of r was written to the store
NothingWritten(r) ==
  /\ ~Issued(r)
  /\ \A row \in conversions : row.id # r
  /\ ItemsBy(r) = {}

\* a value sent for a cents field that is no integer within the cap once
\* read as a number
CentsViolation(v) == v.t \notin {"undef", "null"} /\ ~CentsInRange(ToNumber(v))
ParamOf(q, k) ==
  CASE k = "subtotal_cents" -> q.p_subtotal_cents
    [] k = "discount_cents" -> q.p_discount_cents
    [] k = "tax_cents" -> q.p_tax_cents
    [] OTHER -> q.p_total_cents

\* C2: every event handed to the upsert has subtotal_cents, discount_cents,
\* tax_cents and total_cents that are integers of absolute value at most
\* 100,000,000; a payload of any shape that carries one of these fields with
\* a value that is no such integer is answered 400 and nothing is written; a
\* derived total that is no such integer is never handed on; and the values
\* handed on are the values sent, not clamped ones.
C2_CentsBounded ==
  \A r \in Reqs :
    /\ Issued(r) =>
         \A i \in DOMAIN centsKeys : CentsInRange(ParamOf(req[r].params, centsKeys[i]))
    /\ (Done(r) /\ PastGates(r) /\ req[r].inp.body.kind = "obj"
           /\ req[r].inp.body.bytes <= MAX_BODY_BYTES
           /\ (Truthy(req[r].inp.payload.items) => req[r].inp.payload.items.t = "arr")
           /\ \E i \in DOMAIN centsKeys : CentsViolation(req[r].inp.payload[centsKeys[i]]))
        => req[r].status = 400 /\ NothingWritten(r)
    /\ (Done(r) /\ PastGates(r) /\ req[r].norm # NoEvent /\ ~req[r].norm.throws
           /\ ~CentsInRange(req[r].norm.total_cents))
        => req[r].status \in {400, 422} /\ NothingWritten(r)
    /\ (Issued(r) /\ Detect(req[r].inp.payload) = "custom") =>
         \A i \in DOMAIN centsKeys :
           req[r].inp.payload[centsKeys[i]].t \notin {"undef", "null"} =>
             ParamOf(req[r].params, centsKeys[i]) = ToNumber(req[r].inp.payload[centsKeys[i]])

\* a tax_cents of -100,000,001 was answered 400 after the gates
C2_Witness ==
  /\ Done(1) /\ PastGates(1) /\ req[1].status = 400
  /\ req[1].inp.payload.tax_cents = JInt(-MAX_CENTS - 1)
  /\ req[1].inp.payload.total_cents = JInt(100)

\* a quantity sent for a line item that is no integer in [1, 1000] once read
\* as a number
QuantityViolation(v) ==
  /\ v.t \notin {"undef", "null"}
  /\ ~(ToNumber(v).k = "int" /\ 1 <= ToNumber(v).n /\ ToNumber(v).n <= MAX_QUANTITY)
\* the line items as sent, in the custom and the Shopify-like shape
SentItems(p) ==
  IF Detect(p) = "custom" /\ p.items.t = "arr" THEN p.itemEls
  ELSE IF Detect(p) = "shopify" /\ p.line_items.t = "arr" THEN p.lineEls
  ELSE << >>

\* C3: a line item of the custom or Shopify-like shape whose quantity is
\* outside the integers 1..1000 (0, negative, above 1000, non-integer,
\* non-numeric) makes the request end with 400 "Invalid quantity" and
\* nothing is written.  Stated for requests that are not stale and met no
\* failing collaborator call.
C3_QuantityRejected ==
  \A r \in Reqs :
    (Done(r) /\ PastGates(r) /\ req[r].norm # NoEvent /\ ~req[r].norm.throws
       /\ req[r].status # 422 /\ req[r].errs = {}
       /\ \E i \in DOMAIN SentItems(req[r].inp.payload) :
            QuantityViolation(SentItems(req[r].inp.payload)[i].quantity))
    => req[r].status = 400 /\ req[r].reason = "Invalid quantity" /\ NothingWritten(r)

\* |p - a| <= max(1, 5% of p), for integers
NearPoint(p, a) ==
  LET d == IF p >= a THEN p - a ELSE a - p IN d <= 1 \/ 20 * d <= p
\* the product the matcher is to give an item of amount a: that of the first
\* mapping with a price point near a, else that of the first primary mapping,
\* else none
PriceMatches(ms, a) ==
  {i \in DOMAIN ms : \E j \in DOMAIN ms[i].price_points_cents :
                       NearPoint(ms[i].price_points_cents[j], a)}
Primaries(ms) == {i \in DOMAIN ms : ms[i].is_primary}
Least(S) == CHOOSE i \in S : \A j \in S : i <= j
FallbackProduct(ms) ==
  IF Primaries(ms) # {} THEN ms[Least(Primaries(ms))].product_id ELSE NoProduct
ExpectedProduct(ms, a) ==
  IF PriceMatches(ms, a) # {} THEN ms[Least(PriceMatches(ms, a))].product_id
  ELSE FallbackProduct(ms)

\* C4: for every amount, 0 included, the item gets the product of the first
\* mapping with a price point p such that |p - a| <= max(1, 5% of p), else
\* the primary product, else none.
C4_FirstMatch ==
  fout # << >> => fout[1].product_id = ExpectedProduct(fin.mappings, fin.amount)

\* what mapItemsToProducts does: the rule holds for every amount other than
\* 0; an item of amount 0 matches no price point and gets the primary
\* product, else none.  With the price point 1000 alone, 1049 and 1050 match
\* and 1051 does not.
MapNonZeroFirstMatch ==
  fout # << >> =>
    /\ fin.amount # 0 => fout[1].product_id = ExpectedProduct(fin.mappings, fin.amount)
    /\ fin.amount = 0 => fout[1].product_id = FallbackProduct(fin.mappings)
    /\ (Len(fin.mappings) = 1 /\ fin.mappings[1].price_points_cents = <<1000>>
          /\ ~fin.mappings[1].is_primary) =>
         /\ fin.amount \in {1049, 1050} => fout[1].product_id = "p1"
         /\ fin.amount = 1051 => fout[1].product_id = NoProduct
    /\ fout[1].unit_amount_cents = NInt(fin.amount)

\* an item of 1049 with two mappings that both hold a point near it got the
\* product of the first
MapFirstOfTwo ==
  /\ fout # << >> /\ fin.amount = 1049 /\ Len(fin.mappings) = 2
  /\ fin.mappings[1].price_points_cents = <<5000, 1040>>
  /\ fin.mappings[2].price_points_cents = <<1000>>
  /\ fin.mappings[2].is_primary
  /\ fout[1].product_id = "p1"

\* the snapshot r got holds a primary mapping
SnapshotPrimary(r) == Primaries(req[r].mappings) # {}
\* r has had the answer of the mappings query
Attributed(r) == "mappings" \in req[r].seen

\* C5: with zero normalized items and a primary mapping in the snapshot,
\* exactly one item row is built and inserted: quantity 1, amount the
\* event's total_cents, product the primary one; with one item or more the
\* rows are those items, none synthesized; with zero items and no primary
\* mapping no row is inserted.  The rows reach the store when the insert
\* succeeds.
C5_PrimaryFallback ==
  \A r \in Reqs :
    Attributed(r) =>
      LET n == Len(req[r].norm.items) IN
      /\ (n = 0 /\ SnapshotPrimary(r)) =>
           /\ Len(req[r].rows) = 1
           /\ req[r].rows[1].quantity = NInt(1)
           /\ req[r].rows[1].unit_amount_cents = req[r].params.p_total_cents
           /\ req[r].rows[1].product_id = FallbackProduct(req[r].mappings)
      /\ n >= 1 =>
           /\ Len(req[r].rows) = n
           /\ \A i \in 1..n :
                /\ req[r].rows[i].quantity = req[r].norm.items[i].quantity
                /\ req[r].rows[i].unit_amount_cents = req[r].norm.items[i].unit_amount_cents
      /\ (n = 0 /\ ~SnapshotPrimary(r)) =>
           /\ req[r].rows = << >> /\ Done(r) /\ req[r].status = 200 /\ ItemsBy(r) = {}
      /\ (Done(r) /\ req[r].status = 200) =>
           {it.row : it \in ItemsBy(r)} = {req[r].rows[i] : i \in DOMAIN req[r].rows}
           /\ Cardinality(ItemsBy(r)) = Len(req[r].rows)

\* a Stripe-like event, which has no items, ended with one stored item of
\* its total for the primary product
C5_Witness ==
  /\ Done(1) /\ req[1].status = 200
  /\ req[1].norm.provider = JStr("stripe") /\ req[1].norm.items = << >>
  /\ \E it \in ItemsBy(1) :
       /\ ItemsBy(1) = {it}
       /\ it.row.unit_amount_cents = NInt(5000) /\ it.row.product_id = "pB"

\* C6: within one window the k-th request that reaches the address limiter
\* from one address is admitted iff k <= 120, the k-th that reaches the token
\* limiter for one token iff k <= 300, whatever was counted in earlier
\* windows.
C6_RateLimitExact ==
  last # NoLast =>
    /\ last.ipOk <=> last.ipK <= MAX_EVENTS_PER_MIN_PER_IP
    /\ last.tokK > 0 <=> last.ipOk
    /\ last.tokK > 0 => (last.tokOk <=> last.tokK <= MAX_EVENTS_PER_MIN)
    /\ last.tokK = 0 => ~last.tokOk

\* the first request of the second minute was admitted by both limiters
\* after the first minute had exhausted the address and the token
C6_Witness ==
  /\ last.minute = Minute(Now0) + 1 /\ last.ip = "ip1" /\ last.token = "tok1"
  /\ last.ipK = 1 /\ last.ipOk /\ last.tokK = 1 /\ last.tokOk
  /\ Count(arrivals, <<"ip", "ip1", Minute(Now0)>>) > MAX_EVENTS_PER_MIN_PER_IP
  /\ Count(arrivals, <<"token", "tok1", Minute(Now0)>>) > MAX_EVENTS_PER_MIN

\* r normalized a supported payload whose event time parses
Timed(r) ==
  /\ "body" \in req[r].seen /\ ReachesNormalize(req[r].inp)
  /\ ~req[r].norm.throws /\ Detect(req[r].inp.payload) # "unsupported"
  /\ req[r].norm.event_time.t = "time"
\* milliseconds from the event time of r to the clock the handler read
Age(r) == req[r].checkedAt - req[r].norm.event_time.n
\* Date.parse found no time in the event time of r
Untimed(r) ==
  /\ "body" \in req[r].seen /\ ReachesNormalize(req[r].inp)
  /\ ~req[r].norm.throws /\ Detect(req[r].inp.payload) # "unsupported"
  /\ req[r].norm.event_time.t = "str"

\* C7: an event whose time is more than 7 days before the clock the handler
\* read is answered 422 "Event too old" and nothing is written; one of
\* exactly 7 days or less is never answered 422 and, its items and total
\* being valid, is handed to the upsert; one whose time does not parse is
\* never answered 422.
C7_StaleRejected ==
  \A r \in Reqs :
    /\ (Timed(r) /\ Age(r) > MAX_EVENT_AGE_DAYS * MS_PER_DAY) =>
         /\ Done(r) /\ req[r].status = 422 /\ req[r].reason = "Event too old"
         /\ NothingWritten(r)
    /\ (Timed(r) /\ Age(r) <= MAX_EVENT_AGE_DAYS * MS_PER_DAY) =>
         /\ req[r].status # 422
         /\ (ItemsCheck(req[r].norm) = Pass /\ TotalCheck(req[r].norm) = Pass) => Issued(r)
         /\ (Done(r) /\ Issued(r) /\ req[r].errs = {}) =>
              req[r].status = 200 /\ RowsOf(r) # {}
    /\ Untimed(r) => req[r].status # 422 /\ ~Issued(r)

\* an event of exactly 7 days of age was stored and answered 200
C7_Witness ==
  /\ Timed(1) /\ Age(1) = MAX_EVENT_AGE_DAYS * MS_PER_DAY
  /\ Done(1) /\ req[1].status = 200
  /\ \E row \in conversions : row.id = 1

\* C8: every request in which a collaborator call answered with an error
\* ends with status 500.
C8_DownstreamErrorIs500 ==
  \A r \in Reqs : (Done(r) /\ req[r].errs # {}) => req[r].status = 500

\* r was admitted by both limiters, its node exists, the node's funnel is in
\* the workspace of the path, and the node's token is the one of the path
GatesHold(r) ==
  LET inp == req[r].inp IN
  /\ 1 <= req[r].ipK /\ req[r].ipK <= MAX_EVENTS_PER_MIN_PER_IP
  /\ 1 <= req[r].tokK /\ req[r].tokK <= MAX_EVENTS_PER_MIN
  /\ inp.nodeId \in NodeIds
  /\ FunnelWorkspace(NodeRow(inp.nodeId).funnel_id) = inp.workspaceId
  /\ NodeRow(inp.nodeId).webhook_token = JStr(inp.token)
\* the body of r was read, validated or normalized, or something of r was
\* handed to the store
Processed(r) ==
  \/ PastGates(r) \/ req[r].norm # NoEvent \/ req[r].checkedAt # 0
  \/ ~NothingWritten(r) \/ req[r].rows # << >> \/ req[r].mappings # << >>
  \/ req[r].status \in {400, 413, 422, 200, 500} /\ TransportReply(req[r].inp) = Pass

\* C9: nothing of a request is validated, normalized or stored unless the
\* address limiter, the token limiter, the node lookup, the workspace
\* comparison and the token comparison all passed; a request that fails one
\* of them ends with 429, 404 or 403 and nothing is written.
C9_GatesFirst ==
  \A r \in Reqs :
    /\ Processed(r) => GatesHold(r)
    /\ (req[r].pc \notin {"idle", "node", "funnel"} /\ TransportReply(req[r].inp) = Pass
          /\ ~GatesHold(r) /\ req[r].errs = {}) =>
         /\ Done(r) /\ req[r].status \in {429, 404, 403}
         /\ req[r].norm = NoEvent /\ NothingWritten(r)

\* a request with a valid payload and the wrong token ended with 403 and
\* nothing was written
C9_Witness ==
  /\ Done(1) /\ req[1].status = 403 /\ req[1].reason = "Invalid token"
  /\ req[1].inp.payload = ReadmePayload /\ req[1].inp.token = "bad"
  /\ NothingWritten(1) /\ req[1].norm = NoEvent

Rules == <<"stripe", "paddle", "lemonsqueezy", "shopify", "custom">>
Holds(rule, p) ==
  CASE rule = "stripe" -> IsStripe(p)
    [] rule = "paddle" -> IsPaddle(p)
    [] rule = "lemonsqueezy" -> IsLemon(p)
    [] rule = "shopify" -> IsShopify(p)
    [] OTHER -> IsCustom(p)
FirstRule(p) ==
  LET hit == {i \in DOMAIN Rules : Holds(Rules[i], p)}
  IN IF hit = {} THEN "unsupported" ELSE Rules[Least(hit)]

\* C10: the shape of a payload is that of the first rule, in the order
\* Stripe, Paddle, Lemon Squeezy, Shopify, custom, whose signals it carries,
\* and unsupported when it carries none; the same payload gets the same
\* shape each time; a payload with the signals of both Paddle and Shopify,
\* and not those of Stripe, is taken as Paddle; the event built is built by
\* the normalizer of that shape.
C10_FirstMatchOrder ==
  \A i \in DOMAIN fout :
    /\ fout[i].shape = FirstRule(fin)
    /\ fout[i].shape = fout[1].shape
    /\ (IsPaddle(fin) /\ IsShopify(fin) /\ ~IsStripe(fin)) => fout[i].shape = "paddle"
    /\ fout[i].shape = "unsupported" <=> fout[i].event = NoEvent
    /\ (fout[i].shape \notin {"custom", "unsupported"} /\ ~fout[i].event.throws) =>
         fout[i].event.provider = JStr(fout[i].shape)

\* a payload with the signals of Paddle, Shopify and custom was taken as
\* Paddle twice
C10_Witness ==
  /\ Len(fout) = 2 /\ IsPaddle(fin) /\ IsShopify(fin) /\ IsCustom(fin) /\ ~IsStripe(fin)
  /\ fout[1].shape = "paddle" /\ fout[2].shape = "paddle"
  /\ fout[1].event.provider = JStr("paddle")

\* item i of r's event has an integer amount near no price point of the
\* snapshot r got
Unmatched(r, i) ==
  /\ req[r].norm.items[i].unit_amount_cents.k = "int"
  /\ PriceMatches(req[r].mappings, req[r].norm.items[i].unit_amount_cents.n) = {}

\* C11: an item that matches no price point, on a node whose snapshot holds
\* no primary mapping (the empty snapshot included), is handed to the insert
\* with no product; when the insert succeeds the request ends with 200 and
\* the row is stored with no product, attached to the stored event.
C11_UnmatchedPersisted ==
  \A r \in Reqs :
    (Attributed(r) /\ ~SnapshotPrimary(r)) =>
      \A i \in DOMAIN req[r].norm.items :
        Unmatched(r, i) =>
          /\ Len(req[r].rows) = Len(req[r].norm.items)
          /\ req[r].rows[i].product_id = NoProduct
          /\ req[r].rows[i].conversion_id = req[r].conversionId
          /\ (Done(r) /\ "insert" \notin req[r].errs) =>
               /\ req[r].status = 200
               /\ \E it \in ItemsBy(r) :
                    /\ it.ord = i /\ it.row = req[r].rows[i]
                    /\ \E row \in conversions :
                         /\ row.id = it.row.conversion_id
                         /\ row.event_time = it.row.conversion_event_time

\* the README payload on a node without mappings ended with 200, one event
\* of 9900 and one item of 9900 without product
C11_Witness ==
  /\ Done(1) /\ req[1].status = 200 /\ req[1].inp = Authorized(ReadmePayload)
  /\ node_products = << >> /\ req[1].errs = {}
  /\ \E row \in conversions : row.id = 1 /\ row.total_cents = NInt(9900)
  /\ \E it \in conversion_items :
       /\ conversion_items = {it}
       /\ it.row.product_id = NoProduct /\ it.row.unit_amount_cents = NInt(9900)
       /\ it.row.conversion_id = 1

\* the payload of r was handed to detectAndNormalize and routed to a
\* normalizer
Routed(r) ==
  /\ "body" \in req[r].seen /\ ReachesNormalize(req[r].inp)
  /\ Detect(req[r].inp.payload) # "unsupported"

\* C12: the normalizer a payload is routed to returns an event and never
\* throws, whatever the JSON types of the fields; a routed payload that is
\* rejected before the upsert is rejected with a 4xx status.
C12_NormalizersTotal ==
  \A r \in Reqs :
    Routed(r) =>
      /\ ~req[r].norm.throws
      /\ (Done(r) /\ ~Issued(r)) => (400 <= req[r].status /\ req[r].status <= 499)

\* C13: an event whose time does not parse, and whose items and total are
\* valid, is not answered 422, is handed to the upsert, and ends with 200
\* when no collaborator call fails.
C13_UnparseableTimeAccepted ==
  \A r \in Reqs :
    (Untimed(r) /\ ItemsCheck(req[r].norm) = Pass /\ TotalCheck(req[r].norm) = Pass) =>
      /\ req[r].status # 422
      /\ Issued(r)
      /\ (Done(r) /\ req[r].errs = {}) => req[r].status = 200

\* r normalized an event older than 7 days when the handler read the clock
Stale(r) == Timed(r) /\ Age(r) > MAX_EVENT_AGE_DAYS * MS_PER_DAY
\* an item or the total of r's event is invalid
InvalidEvent(r) == ItemsCheck(req[r].norm) # Pass \/ TotalCheck(req[r].norm) # Pass
\* the body of r was read and holds an out-of-cap cents field and an event
\* time older than 7 days
StaleWithBadRawCents(r) ==
  /\ "body" \in req[r].seen /\ req[r].inp.body.kind = "obj"
  /\ req[r].inp.body.bytes <= MAX_BODY_BYTES
  /\ RawItemsCheck(req[r].inp.payload) = Pass
  /\ \E i \in DOMAIN centsKeys : RawCentsBad(req[r].inp.payload[centsKeys[i]])
  /\ req[r].inp.payload.event_time.t = "time"
  /\ Now0 - req[r].inp.payload.event_time.n > MAX_EVENT_AGE_DAYS * MS_PER_DAY

\* C14: staleness is the last check: an event that has an invalid item or an
\* out-of-cap total and is older than 7 days is rejected with the item or
\* cents reason (400), not with the stale-event reason.
C14_StalenessLast ==
  \A r \in Reqs :
    /\ (Stale(r) /\ InvalidEvent(r)) =>
         req[r].status = 400 /\ req[r].reason # "Event too old"
    /\ StaleWithBadRawCents(r) =>
         req[r].status = 400 /\ req[r].reason # "Event too old"

\* C14 amended: the first failing check is reported in the order body size
\* and JSON, raw item count, raw event-level cents fields, staleness, items,
\* normalized total.  An event older than 7 days with an invalid item or an
\* out-of-cap derived total is answered 422 "Event too old"; one with an
\* out-of-cap raw cents field is answered 400 with the cents reason; a fresh
\* one is answered 400 with the item reason before the total reason.
C14_StalenessBeforeItems ==
  \A r \in Reqs :
    /\ StaleWithBadRawCents(r) =>
         /\ Done(r) /\ req[r].status = 400
         /\ req[r].reason \in {"Invalid value for " \o centsKeys[i] : i \in DOMAIN centsKeys}
    /\ Stale(r) =>
         Done(r) /\ req[r].status = 422 /\ req[r].reason = "Event too old"
    /\ (Timed(r) /\ ~Stale(r) /\ ItemsCheck(req[r].norm) # Pass) =>
         /\ Done(r) /\ req[r].status = 400
         /\ req[r].reason \in {"Too many items", "Invalid unit_amount_cents", "Invalid quantity"}
    /\ (Timed(r) /\ ~Stale(r) /\ ItemsCheck(req[r].norm) = Pass
          /\ TotalCheck(req[r].norm) # Pass) =>
         Done(r) /\ req[r].status = 400 /\ req[r].reason = "Invalid total_cents"
    /\ (Stale(r) \/ StaleWithBadRawCents(r) \/ (Timed(r) /\ InvalidEvent(r))) =>
         NothingWritten(r)

\* a Shopify-like event of 8 days of age with an item of quantity 1001 was
\* answered 422
C14_Witness ==
  /\ Stale(1) /\ ItemsCheck(req[1].norm) = Reply(400, "Invalid quantity")
  /\ req[1].norm.provider = JStr("shopify")
  /\ Done(1) /\ req[1].status = 422 /\ NothingWritten(1)

\* r ran to its end and was answered 200
Completed(r) == Done(r) /\ req[r].status = 200 /\ Issued(r)
\* the number of items attributed to r's event: its normalized items, or the
\* one synthesized item when it has none and the mappings r was answered
\* with hold a primary one
AttributedCount(r) ==
  IF Len(req[r].norm.items) > 0 THEN Len(req[r].norm.items)
  ELSE IF "mappings" \notin req[r].errs /\ Primaries(node_products) # {} THEN 1
  ELSE 0
\* the completed requests that submitted the event of r
Submissions(r) ==
  {q \in Reqs : Completed(q) /\ ParamsKey(req[q].params) = ParamsKey(req[r].params)}
SumCount(S) ==
  LET F[T \in SUBSET S] ==
        IF T = {} THEN 0
        ELSE LET q == CHOOSE x \in T : TRUE IN AttributedCount(q) + F[T \ {q}]
  IN F[S]
\* the stored item rows that reference the conversions row x
ItemsOf(x) ==
  {it \in conversion_items : /\ it.row.conversion_id = x.id
                             /\ it.row.conversion_event_time = x.event_time}

AmountViolation(v) == v.t \notin {"undef", "null"} /\ ~CentsInRange(ToNumber(v))
\* the unit_amount_cents sent for item i of a custom payload; a Shopify-like
\* line item carries a price, from which the amount is derived
SentAmount(p, i) ==
  IF Detect(p) = "custom" THEN SentItems(p)[i].unit_amount_cents
  ELSE JInt(0)

\* C16: every item row handed to the item insert has a unit_amount_cents
\* that is an integer of absolute value at most 100,000,000; an item sent
\* with a unit amount that is non-numeric, non-integer or out of cap makes
\* the request end with 400 and nothing is written.
C16_ItemAmountBounded ==
  \A r \in Reqs :
    /\ \A i \in DOMAIN req[r].rows : CentsInRange(req[r].rows[i].unit_amount_cents)
    /\ \A it \in ItemsBy(r) : CentsInRange(it.row.unit_amount_cents)
    /\ (Done(r) /\ Routed(r) /\ ~req[r].norm.throws /\ req[r].status # 422
          /\ req[r].errs = {}
          /\ \E i \in DOMAIN SentItems(req[r].inp.payload) :
               AmountViolation(SentAmount(req[r].inp.payload, i))) =>
         req[r].status = 400 /\ NothingWritten(r)

\* the five canonical providers
Providers == {"stripe", "paddle", "lemonsqueezy", "shopify", "custom"}

\* C17: the provider of every event handed to the upsert is one of the five
\* canonical providers, namely the one of the normalizer the payload was
\* routed to; a payload of the custom shape is stored as "custom".
C17_ProviderCanonical ==
  \A r \in Reqs :
    Issued(r) =>
      /\ req[r].params.p_provider \in {JStr(x) : x \in Providers}
      /\ req[r].params.p_provider = JStr(Detect(req[r].inp.payload))

\* the item insert of r failed after its event was resolved
InsertFailed(r) == "insert" \in req[r].errs
\* a step calls neither the upsert nor the item insert a second time for one
\* request, changes nothing of a request that has ended, and removes no
\* stored row
NoRepeatNoRepair ==
  /\ \A r \in Reqs :
       /\ "upsert" \in req[r].seen => req'[r].pc # "upsert"
       /\ "insert" \in req[r].seen => req'[r].pc # "insert"
       /\ Done(r) => req'[r] = req[r]
  /\ \A x \in conversions : \E y \in conversions' : y.id = x.id /\ RowKey(y) = RowKey(x)
  /\ conversion_items \subseteq conversion_items'

\* C18: when the item insert fails after the event was resolved, the request
\* ends with 500, the event row is stored and none of the request's items
\* is; no step deletes a stored row or repeats the upsert or the item
\* insert of a request.
C18_InsertFailureSurfaced ==
  /\ [](\A r \in Reqs :
         InsertFailed(r) =>
           /\ Done(r) /\ req[r].status = 500
           /\ req[r].rows # << >> /\ ItemsBy(r) = {}
           /\ \E x \in conversions :
                x.id = req[r].conversionId /\ RowKey(x) = ParamsKey(req[r].params))
  /\ [][NoRepeatNoRepair]_vars

\* the item insert failed for the README payload after its upsert created
\* the event row: 500, the row stored, no item stored
C18_Witness ==
  /\ InsertFailed(1) /\ Done(1) /\ req[1].status = 500
  /\ req[1].inp = Authorized(ReadmePayload) /\ req[1].convRows = "row"
  /\ \E x \in conversions : x.id = 1
  /\ conversion_items = {}

\* the payload carries the field, whatever its value
HasField(v) == v.t # "undef"
\* none of the Stripe, Paddle, Lemon Squeezy and Shopify rules holds
NoProviderShape(p) == ~IsStripe(p) /\ ~IsPaddle(p) /\ ~IsLemon(p) /\ ~IsShopify(p)

\* C19: a payload of none of the first four shapes is custom when it has a
\* total_cents field or an items field, whatever the value (total_cents = 0
\* with no items included), and unsupported only when it has neither.
C19_CustomByPresence ==
  \A i \in DOMAIN fout :
    NoProviderShape(fin) =>
      /\ (HasField(fin.total_cents) \/ HasField(fin.items)) => fout[i].shape = "custom"
      /\ fout[i].shape = "unsupported" <=>
           (~HasField(fin.total_cents) /\ ~HasField(fin.items))

\* the event identifier of r was resolved, from the rows the upsert returned
\* or from the fallback read
Resolved(r) ==
  \/ req[r].convRows = "row" /\ "upsert" \in req[r].seen
  \/ req[r].convRows = "empty" /\ "existing" \in req[r].seen /\ req[r].pc # "existing"
     /\ "existing" \notin req[r].errs
\* row is an item row that references the stored event of r's tuple
RefersToEventOf(row, r) ==
  \E x \in conversions :
    /\ x.id = row.conversion_id /\ x.event_time = row.conversion_event_time
    /\ x.workspace_id = row.workspace_id
    /\ x.workspace_id = req[r].inp.workspaceId
    /\ RowKey(x) = ParamsKey(req[r].params)

\* C20: every stored item row references, by identifier and canonical
\* timestamp, a stored event row of the workspace and tuple of the request
\* that inserted it; the item batch of a request is built and inserted only
\* after its event identifier was resolved, from the upsert result or the
\* fallback read.
C20_ItemsReferenceEvent ==
  /\ \A it \in conversion_items : RefersToEventOf(it.row, it.by) /\ Resolved(it.by)
  /\ \A r \in Reqs :
       (req[r].pc = "insert" \/ req[r].rows # << >>) =>
         /\ Resolved(r)
         /\ \A i \in DOMAIN req[r].rows :
              /\ req[r].rows[i].conversion_id = req[r].conversionId
              /\ RefersToEventOf(req[r].rows[i], r)

\* the second submission of an event resolved the row of the first by the
\* fallback read and stored an item that references it
C20_Witness ==
  /\ Completed(2) /\ req[2].convRows = "empty"
  /\ \E it \in ItemsBy(2) : it.row.conversion_id = 1 /\ RefersToEventOf(it.row, 2)
  /\ \E x \in conversions : x.id = 1

\* the statuses of a rejected request
ClientErrors == {400, 403, 404, 413, 415, 422, 429}
\* r ended with a 4xx status
Rejected(r) == Done(r) /\ req[r].status \in ClientErrors
\* the event store, the item store and the mapping table are left as they are
StoresUnchanged ==
  /\ conversions' = conversions /\ conversion_items' = conversion_items
  /\ node_products' = node_products
\* a step changes the stores only as the answer to the upsert or to the item
\* insert of some request, and not at all when it ends a request with 4xx
OnlyPersistenceWrites ==
  /\ StoresUnchanged \/ \E r \in Reqs : req[r].pc \in {"upsert", "insert"} /\ req'[r] # req[r]
  /\ (\E r \in Reqs : ~Done(r) /\ req'[r].pc = "done" /\ req'[r].status \in ClientErrors)
       => StoresUnchanged

\* C21: a request that ends with 400, 403, 404, 413, 415, 422 or 429 reached
\* neither the upsert nor the item insert and wrote nothing: with one
\* request the event store and the item store are as before it arrived.
\* The stores change only in the steps that answer an upsert or an item
\* insert, and every status a request ends with before the upsert is one of
\* these seven or 500.
C21_RejectionWritesNothing ==
  /\ [](\A r \in Reqs :
         /\ Rejected(r) =>
              /\ NothingWritten(r)
              /\ "upsert" \notin req[r].seen /\ "insert" \notin req[r].seen
              /\ req[r].rows = << >> /\ req[r].params = NoParams
         /\ (Done(r) /\ req[r].status \notin {200, 204, 500}) => Rejected(r)
         /\ (mode = "wide" /\ Rejected(r)) =>
              conversions = PriorRows /\ conversion_items = {})
  /\ [][OnlyPersistenceWrites]_vars

\* a request that passed the gates was answered 422 and left the stores as
\* they were, the token's counter being the only thing it changed
C21_Witness ==
  /\ Rejected(1) /\ req[1].status = 422 /\ PastGates(1)
  /\ conversions = PriorRows /\ conversion_items = {}
  /\ tokenBuckets # HotTokenBuckets /\ ipBuckets # HotIpBuckets
====
